---- MODULE Spec2Model ----
(***************************************************************************)
(* A model of pecs_core (crates/pecs_core/src/lib.rs): promise identities, *)
(* the promise registry, the lifecycle operations promise_register /       *)
(* promise_resolve / promise_discard, the chaining operators and the       *)
(* any / all combinators.                                                  *)
(*                                                                         *)
(* Boxed FnOnce closures are records: the field k names the closure        *)
(* expression of the source, the other fields are its captured values.     *)
(* A call of a lifecycle operation runs synchronously, callbacks included; *)
(* it is computed by Exec, an interpreter over a stack of pending calls,   *)
(* so one action of the model is one top-level call with everything it     *)
(* triggers.  A panic (Option::unwrap on None) sets fault and unwinds the  *)
(* whole call stack.                                                       *)
(*                                                                         *)
(* The registry is a family of maps, one per (S, R) pair.  Identities are  *)
(* unique over all partitions and every call the library itself makes      *)
(* names the partition of the node's own type, so the family is modelled   *)
(* as one map from identity to node.                                       *)
(***************************************************************************)
EXTENDS Integers, Sequences, FiniteSets, TLC

VARIABLES
  reg,     \* PromiseRegistry: identity -> stored Promise node
  log,     \* observable events, in order: callbacks run, diagnostics, panics
  fault,   \* TRUE once a call has panicked
  local,   \* PROMISE_LOCAL_ID, one counter per thread
  slots,   \* heap cells leaked by MutPtr::new, by allocation
  built,   \* nodes constructed by the application and not yet registered
  sc,      \* the identities of the scenario under construction
  last,    \* the last top-level call and what it found
  ops      \* number of top-level calls made

vars == <<reg, log, fault, local, slots, built, sc, last, ops>>

----------------------------------------------------------------------------
(* Bounds *)
NumThreads == 2
MaxLocal == 4
MaxCalls == 6
MaxVal == 1
MaxOps == 3
MaxThen == 1
MaxSibs == 3
MaxCombOps == 4
MaxSync == 3

Threads == 1..NumThreads
Vals == 0..MaxVal
\* The thread that owns the World while commands are applied.
WorldThread == CHOOSE t \in Threads : \A u \in Threads : t <= u

----------------------------------------------------------------------------
(* Values *)
None == [k |-> "None"]
IsSome(c) == c.k # "None"
Some(v) == [k |-> "Some", v |-> v]
Unit == <<>>

Range(f) == {f[i] : i \in DOMAIN f}

----------------------------------------------------------------------------
(* PromiseId *)

\* A mutant of PromiseIdNew: the identity carries the counter but not the thread.
PromiseIdNewNoThread(loc, t) ==
  [id |-> <<WorldThread, loc[t] + 1>>, local |-> [loc EXCEPT ![t] = loc[t] + 1]]

\* PromiseId::new on thread t: bump the thread-local counter, pair it with
\* the thread's id.
PromiseIdNew(loc, t) ==
  [id |-> <<t, loc[t] + 1>>, local |-> [loc EXCEPT ![t] = loc[t] + 1]]

----------------------------------------------------------------------------
(* User functions (the bodies given to asyn!) as data.                     *)
(*   Fn f      : returns PromiseResult::Resolve of a transformed (s, r)    *)
(*   Const r   : state.resolve(r)                                          *)
(*   Comp f g  : run f, then g on the outcome of f                         *)
(*   Delay     : returns a fresh Promise::register(on_invoke, on_discard)  *)
(*   AnyBody / AllBody : the bodies any and all chain onto each sibling    *)

FnNames == {"keep", "incs", "swap", "sum"}

ApplyFn(name, s, r) ==
  CASE name = "keep" -> <<s, r>>
    [] name = "incs" -> <<(s + 1) % (MaxVal + 1), r>>
    [] name = "swap" -> <<r, s>>
    [] name = "sum"  -> <<s, (s + r) % (MaxVal + 1)>>

Resolve(s, r) == [k |-> "Resolve", s |-> s, r |-> r]
Await(p) == [k |-> "Await", p |-> p]

\* Promise::register(on_invoke, on_discard)
PromiseRegister(loc, t, on_invoke, on_discard) ==
  LET g == PromiseIdNew(loc, t)
  IN [local |-> g.local,
      p |-> [id |-> g.id, resolve |-> None, register |-> on_invoke,
             discard |-> on_discard]]

RECURSIVE EvalPure(_, _, _)
\* the value of a synchronous user function on (s, r)
EvalPure(f, s, r) ==
  CASE f.k = "Fn" -> ApplyFn(f.f, s, r)
    [] f.k = "Const" -> <<s, f.r>>
    [] f.k = "Comp" -> LET m == EvalPure(f.f, s, r) IN EvalPure(f.g, m[1], m[2])

\* system.run(input, world).into(): the PromiseResult of a body, with the
\* thread-local counter after the identities the body generated.
RunFunc(loc, f, s, r) ==
  CASE f.k \in {"Fn", "Const", "Comp"} ->
         LET v == EvalPure(f, s, r)
         IN [local |-> loc, pr |-> Resolve(v[1], v[2])]
    [] f.k = "Delay" ->
         LET n == PromiseRegister(loc, WorldThread,
                                  [k |-> "Pending"], [k |-> "UserDiscard"])
         IN [local |-> n.local, pr |-> Await(n.p)]
    [] f.k = "AnyBody" ->
         LET n == PromiseRegister(loc, WorldThread,
                    [k |-> "AnyNotify", ids |-> s.ids, idx |-> s.idx,
                     any_id |-> s.any_id, state |-> s.state, r |-> r],
                    [k |-> "Noop"])
         IN [local |-> n.local, pr |-> Await(n.p)]
    [] f.k = "AllBody" ->
         LET n == PromiseRegister(loc, WorldThread,
                    [k |-> "AllNotify", idx |-> s.idx, any_id |-> s.any_id,
                     s |-> s.s, r |-> r, value |-> s.value],
                    [k |-> "Noop"])
         IN [local |-> n.local, pr |-> Await(n.p)]

----------------------------------------------------------------------------
(* Chaining operators: each builds a node with a fresh identity around self *)

\* Promise::new(default_state, func)
PromiseNew(loc, t, default_state, func) ==
  LET g == PromiseIdNew(loc, t)
  IN [local |-> g.local,
      p |-> [id |-> g.id, resolve |-> None, discard |-> None,
             register |-> [k |-> "NewBody", func |-> func,
                           default_state |-> default_state]]]

\* Promise::then(self, func)
Then(loc, t, self, func) ==
  LET g == PromiseIdNew(loc, t)
      self2 == [self EXCEPT
                  !.discard = [k |-> "DiscardId", id |-> g.id],
                  !.resolve = [k |-> "ThenBody", func |-> func, id |-> g.id]]
  IN [local |-> g.local,
      p |-> [id |-> g.id,
             register |-> [k |-> "RegSelf", node |-> self2],
             discard |-> [k |-> "CallOpt", discard |-> self.discard,
                          self_id |-> self.id],
             resolve |-> None]]

\* A mutant of Map: the discard closure hands the upstream's discard callback
\* the identity it was called with, not the upstream's.
MapOwnId(loc, t, self, map) ==
  LET g == PromiseIdNew(loc, t)
      self2 == [self EXCEPT
                  !.discard = [k |-> "DiscardId", id |-> g.id],
                  !.resolve = [k |-> "MapBody", map |-> map, id |-> g.id]]
  IN [local |-> g.local,
      p |-> [id |-> g.id,
             register |-> [k |-> "RegSelf", node |-> self2],
             discard |-> [k |-> "CallOpt", discard |-> self.discard,
                          self_id |-> g.id],
             resolve |-> None]]

\* Promise::map(self, map); map is data: Tag* are the closures of any / all,
\* With is the constant closure of Promise::with.
Map(loc, t, self, map) ==
  LET g == PromiseIdNew(loc, t)
      self2 == [self EXCEPT
                  !.discard = [k |-> "DiscardId", id |-> g.id],
                  !.resolve = [k |-> "MapBody", map |-> map, id |-> g.id]]
  IN [local |-> g.local,
      p |-> [id |-> g.id,
             register |-> [k |-> "RegSelf", node |-> self2],
             discard |-> [k |-> "CallOpt", discard |-> self.discard,
                          self_id |-> self.id],
             resolve |-> None]]

\* Promise::map_result(self, map)
MapResult(loc, t, self, map) ==
  LET g == PromiseIdNew(loc, t)
      self2 == [self EXCEPT
                  !.discard = [k |-> "DiscardId", id |-> g.id],
                  !.resolve = [k |-> "MapResultBody", map |-> map, id |-> g.id]]
  IN [local |-> g.local,
      p |-> [id |-> g.id,
             register |-> [k |-> "RegSelf", node |-> self2],
             discard |-> [k |-> "CallOpt", discard |-> self.discard,
                          self_id |-> self.id],
             resolve |-> None]]

\* the value of a map closure on its argument
ApplyMap(map, x) ==
  CASE map.k = "With" -> map.v
    [] map.k = "Inc" -> (x + 1) % (MaxVal + 1)
    [] map.k = "AnyTag" ->
         [state |-> x, any_id |-> map.any_id, idx |-> map.idx, ids |-> map.ids]
    [] map.k = "AllTag" ->
         [s |-> x, any_id |-> map.any_id, idx |-> map.idx, value |-> map.value]

\* <Vec<Promise<S, R>> as AnyPromises>::register
AnyRegister(loc, t, promises) ==
  LET ids == [i \in DOMAIN promises |-> promises[i].id]
  IN PromiseRegister(loc, t,
       [k |-> "AnyInvoke", promises |-> promises, ids |-> ids],
       [k |-> "AnyDiscard", ids |-> ids])

\* A mutant of AllRegister: all over no siblings resolves at once, with the
\* empty vector.
AllRegisterEager(loc, t, promises) ==
  LET ids == [i \in DOMAIN promises |-> promises[i].id]
  IN PromiseRegister(loc, t,
       IF promises = <<>>
         THEN [k |-> "NewBody", func |-> [k |-> "Const", r |-> <<>>],
               default_state |-> Unit]
         ELSE [k |-> "AllInvoke", promises |-> promises, size |-> Len(ids)],
       [k |-> "AllDiscard", ids |-> ids])

\* <Vec<Promise<S, R>> as AllPromises>::register
AllRegister(loc, t, promises) ==
  LET ids == [i \in DOMAIN promises |-> promises[i].id]
  IN PromiseRegister(loc, t,
       [k |-> "AllInvoke", promises |-> promises, size |-> Len(ids)],
       [k |-> "AllDiscard", ids |-> ids])

----------------------------------------------------------------------------
(* The World as a value: what the lifecycle operations read and write.     *)
(* Each operation below returns the World after its own statements and     *)
(* push, the calls it makes next, in order.                                *)

Emit(w, e) == [w EXCEPT !.log = Append(@, e)]
Ret(w, push) == [w |-> w, push |-> push]

\* registry.0.write().unwrap(): the caller takes the registry's write lock;
\* a caller that already holds it blocks on itself.
Acquire(w) ==
  IF w.held
    THEN [Emit(w, [ev |-> "blocked"]) EXCEPT !.fault = TRUE]
    ELSE [w EXCEPT !.held = TRUE]

\* the write guard goes out of scope
Release(w) == [w EXCEPT !.held = FALSE]

\* a callback is entered: note a registry lock held around it
Enter(w) == IF w.held THEN Emit(w, [ev |-> "locked_callback"]) ELSE w

\* A mutant of promise_register: the node is stored with its register
\* callback still in place.
promise_register_keep(w, promise) ==
  LET id == promise.id
      register == promise.register
      w1 == [w EXCEPT !.reg = (id :> promise) @@ @]
  IN Ret(w1, IF IsSome(register)
               THEN <<[op |-> "callfn", f |-> register, id |-> id]>>
               ELSE <<>>)

\* A mutant of promise_register: the register callback runs first and the
\* node is stored after it has returned.
promise_register_late(w, promise) ==
  LET id == promise.id
      register == promise.register
      stored == [promise EXCEPT !.register = None]
  IN IF IsSome(register)
       THEN Ret(w, <<[op |-> "callfn", f |-> register, id |-> id],
                     [op |-> "register", node |-> stored]>>)
       ELSE Ret([w EXCEPT !.reg = (id :> stored) @@ @], <<>>)

\* promise_register: take the register callback, store the node, run the
\* callback.
promise_register(w, promise) ==
  LET id == promise.id
      register == promise.register
      stored == [promise EXCEPT !.register = None]
      w1 == Release([Acquire(w) EXCEPT !.reg = (id :> stored) @@ @])
  IN Ret(w1, IF IsSome(register)
               THEN <<[op |-> "callfn", f |-> register, id |-> id]>>
               ELSE <<>>)

\* A mutant of promise_resolve: the write guard is a temporary of the
\* if-let scrutinee and lives until the resolve callback has returned.
promise_resolve_locked(w, id, state, result) ==
  IF id \notin DOMAIN w.reg
    THEN Ret([Emit(Acquire(w), [ev |-> "panic", id |-> id])
                EXCEPT !.fault = TRUE], <<>>)
    ELSE LET resolve == w.reg[id].resolve
             w1 == Emit([Acquire(w) EXCEPT !.reg[id].resolve = None],
                        [ev |-> "resolve", id |-> id, v |-> <<state, result>>])
         IN Ret(IF IsSome(resolve) THEN w1 ELSE Release(w1),
                (IF IsSome(resolve)
                   THEN <<[op |-> "callres", f |-> resolve,
                           s |-> state, r |-> result]>>
                   ELSE <<>>)
                \o <<[op |-> "remove", id |-> id]>>)

\* A mutant of promise_resolve: the identity is left in the registry after
\* its resolve callback has run.
promise_resolve_keep(w, id, state, result) ==
  IF id \notin DOMAIN w.reg
    THEN Ret([Emit(w, [ev |-> "panic", id |-> id]) EXCEPT !.fault = TRUE], <<>>)
    ELSE LET resolve == w.reg[id].resolve
             w1 == Emit([w EXCEPT !.reg[id].resolve = None],
                        [ev |-> "resolve", id |-> id, v |-> <<state, result>>])
         IN Ret(w1, IF IsSome(resolve)
                      THEN <<[op |-> "callres", f |-> resolve,
                              s |-> state, r |-> result]>>
                      ELSE <<>>)

\* promise_resolve: under the write lock, get_mut(&id).unwrap() panics on an
\* absent identity, otherwise the resolve callback is taken; the guard is
\* dropped at the end of the block; then the callback runs and the identity
\* is removed.
promise_resolve(w, id, state, result) ==
  IF id \notin DOMAIN w.reg
    THEN Ret([Emit(Acquire(w), [ev |-> "panic", id |-> id])
                EXCEPT !.fault = TRUE], <<>>)
    ELSE LET resolve == w.reg[id].resolve
             w1 == Release(
                     Emit([Acquire(w) EXCEPT !.reg[id].resolve = None],
                          [ev |-> "resolve", id |-> id,
                           v |-> <<state, result>>]))
         IN Ret(w1, (IF IsSome(resolve)
                       THEN <<[op |-> "callres", f |-> resolve,
                               s |-> state, r |-> result]>>
                       ELSE <<>>)
                    \o <<[op |-> "remove", id |-> id]>>)

\* A mutant of promise_discard: an absent identity is unwrapped, as in
\* promise_resolve.
promise_discard_unwrap(w, id) ==
  IF id \notin DOMAIN w.reg
    THEN Ret([Emit(w, [ev |-> "panic", id |-> id]) EXCEPT !.fault = TRUE], <<>>)
    ELSE LET discard == w.reg[id].discard
             w1 == Emit([w EXCEPT !.reg[id].discard = None],
                        [ev |-> "discard", id |-> id])
         IN Ret(w1, (IF IsSome(discard)
                       THEN <<[op |-> "callfn", f |-> discard, id |-> id]>>
                       ELSE <<>>)
                    \o <<[op |-> "remove", id |-> id]>>)

\* promise_discard: an absent identity is reported and skipped; otherwise
\* take the discard callback, run it, remove the identity.
promise_discard(w, id) ==
  IF id \notin DOMAIN w.reg
    THEN Ret(Release(Emit(Acquire(w), [ev |-> "discard_absent", id |-> id])),
             <<[op |-> "remove", id |-> id]>>)
    ELSE LET discard == w.reg[id].discard
             w1 == Release(Emit([Acquire(w) EXCEPT !.reg[id].discard = None],
                                [ev |-> "discard", id |-> id]))
         IN Ret(w1, (IF IsSome(discard)
                       THEN <<[op |-> "callfn", f |-> discard, id |-> id]>>
                       ELSE <<>>)
                    \o <<[op |-> "remove", id |-> id]>>)

\* registry.0.write().unwrap().remove(&id)
RegistryRemove(w, id) ==
  Ret(Release([Acquire(w) EXCEPT !.reg = [x \in (DOMAIN @) \ {id} |-> @[x]]]),
      <<>>)

\* A mutant of Route: the awaited promise is registered as it came, its
\* resolution not redirected to the awaiting identity.
RouteUnwired(w, pr, id) ==
  IF pr.k = "Resolve"
    THEN Ret(w, <<[op |-> "resolve", id |-> id, s |-> pr.s, r |-> pr.r]>>)
    ELSE IF IsSome(pr.p.resolve)
      THEN Ret(Emit(w, [ev |-> "misconfigured", id |-> pr.p.id]), <<>>)
      ELSE Ret(w, <<[op |-> "register", node |-> pr.p]>>)

\* match pr { Resolve(s, r) => promise_resolve(id, s, r), Await(p) => ... }
Route(w, pr, id) ==
  IF pr.k = "Resolve"
    THEN Ret(w, <<[op |-> "resolve", id |-> id, s |-> pr.s, r |-> pr.r]>>)
    ELSE IF IsSome(pr.p.resolve)
      THEN Ret(Emit(w, [ev |-> "misconfigured", id |-> pr.p.id]), <<>>)
      ELSE Ret(w, <<[op |-> "register",
                     node |-> [pr.p EXCEPT
                                 !.resolve = [k |-> "ResolveId", id |-> id]]]>>)

\* the body of one iteration of the loop of AnyPromises::register's on_invoke
AnyItem(w, i) ==
  LET m == Map(w.local, WorldThread, i.promise,
               [k |-> "AnyTag", any_id |-> i.any_id, idx |-> i.idx,
                ids |-> i.ids])
      t == Then(m.local, WorldThread, m.p, [k |-> "AnyBody"])
  IN Ret([w EXCEPT !.local = t.local], <<[op |-> "register", node |-> t.p]>>)

\* A mutant of AllItem: idx is not advanced, every sibling is given slot 0.
AllItemSameIdx(w, i) ==
  LET m == Map(w.local, WorldThread, i.promise,
               [k |-> "AllTag", any_id |-> i.any_id, idx |-> i.idx - i.idx,
                value |-> i.value])
      t == Then(m.local, WorldThread, m.p, [k |-> "AllBody"])
  IN Ret([w EXCEPT !.local = t.local], <<[op |-> "register", node |-> t.p]>>)

\* the body of one iteration of the loop of AllPromises::register's on_invoke
AllItem(w, i) ==
  LET m == Map(w.local, WorldThread, i.promise,
               [k |-> "AllTag", any_id |-> i.any_id, idx |-> i.idx,
                value |-> i.value])
      t == Then(m.local, WorldThread, m.p, [k |-> "AllBody"])
  IN Ret([w EXCEPT !.local = t.local], <<[op |-> "register", node |-> t.p]>>)

\* for (i, id) in ids.iter().enumerate() { if i != idx { promise_discard(id) } }
DiscardOthers(ids, idx) ==
  LET keep == {i \in DOMAIN ids : i # idx + 1}
      F[n \in 0..Len(ids)] ==
        IF n = 0 THEN <<>>
        ELSE IF n \in keep
          THEN Append(F[n - 1], [op |-> "discard", id |-> ids[n]])
          ELSE F[n - 1]
  IN F[Len(ids)]

\* A mutant of AnyNotify: the parent is resolved, the other siblings are
\* left registered.
AnyNotifyKeepOthers(w, f) ==
  Ret(w, <<[op |-> "resolve", id |-> f.any_id, s |-> Unit,
            r |-> <<f.state, f.r>>]>>)

\* the notifier any registers for a resolved sibling
AnyNotify(w, f) ==
  Ret(w, DiscardOthers(f.ids, f.idx)
         \o <<[op |-> "resolve", id |-> f.any_id, s |-> Unit,
               r |-> <<f.state, f.r>>]>>)

\* A mutant of AllNotify: the slot is counted from the end of the array.
AllNotifyReversed(w, f) ==
  LET cell == w.slots[f.value]
      v == [cell.v EXCEPT ![Len(cell.v) - f.idx] = Some(<<f.s, f.r>>)]
  IN IF \A i \in DOMAIN v : IsSome(v[i])
       THEN Ret([w EXCEPT !.slots[f.value] = [v |-> v, live |-> FALSE]],
                <<[op |-> "resolve", id |-> f.any_id, s |-> Unit,
                   r |-> [i \in DOMAIN v |-> v[i].v]]>>)
       ELSE Ret([w EXCEPT !.slots[f.value].v = v], <<>>)

\* the notifier all registers for a resolved sibling: write the slot, and
\* when every slot is filled consume the array and resolve the parent
AllNotify(w, f) ==
  LET cell == w.slots[f.value]
  IN IF ~cell.live
       THEN Ret([Emit(w, [ev |-> "use_after_free", id |-> f.any_id])
                   EXCEPT !.fault = TRUE], <<>>)
       ELSE LET v == [cell.v EXCEPT ![f.idx + 1] = Some(<<f.s, f.r>>)]
                wrote == Emit(w, [ev |-> "slot_write", id |-> f.any_id,
                                  idx |-> f.idx,
                                  was |-> cell.v[f.idx + 1].k])
            IN IF \A i \in DOMAIN v : IsSome(v[i])
                 THEN Ret([wrote EXCEPT !.slots[f.value] =
                                          [v |-> v, live |-> FALSE]],
                          <<[op |-> "resolve", id |-> f.any_id, s |-> Unit,
                             r |-> [i \in DOMAIN v |-> v[i].v]]>>)
                 ELSE Ret([wrote EXCEPT !.slots[f.value].v = v], <<>>)

\* A mutant of DiscardAll: the loop stops before the last identity.
DiscardAllButLast(ids) ==
  [i \in 1..(Len(ids) - 1) |-> [op |-> "discard", id |-> ids[i]]]

\* for id in ids { promise_discard(world, id) }: the on_discard of the parent
\* of any and of all
DiscardAll(ids) ==
  [i \in DOMAIN ids |-> [op |-> "discard", id |-> ids[i]]]

\* a call of a Box<dyn FnOnce(&mut World, PromiseId)>
CallFn(w, f, id) ==
  CASE f.k = "Pending" -> Ret(Emit(w, [ev |-> "on_invoke", id |-> id]), <<>>)
    [] f.k = "UserDiscard" -> Ret(Emit(w, [ev |-> "on_discard", id |-> id]), <<>>)
    [] f.k = "Noop" -> Ret(w, <<>>)
    [] f.k = "NewBody" ->
         LET x == RunFunc(w.local, f.func, f.default_state, Unit)
             w1 == Emit([w EXCEPT !.local = x.local],
                        [ev |-> "run", id |-> id])
         IN Route(w1, x.pr, id)
    [] f.k = "RegSelf" -> Ret(w, <<[op |-> "register", node |-> f.node]>>)
    [] f.k = "DiscardId" -> Ret(w, <<[op |-> "discard", id |-> f.id]>>)
    [] f.k = "CallOpt" ->
         Ret(w, IF IsSome(f.discard)
                  THEN <<[op |-> "callfn", f |-> f.discard, id |-> f.self_id]>>
                  ELSE <<>>)
    [] f.k = "AnyInvoke" ->
         Ret(w, [i \in DOMAIN f.promises |->
                   [op |-> "any_item", promise |-> f.promises[i],
                    any_id |-> id, idx |-> i - 1, ids |-> f.ids]])
    [] f.k = "AllInvoke" ->
         Ret([w EXCEPT !.slots = (id :> [v |-> [i \in 1..f.size |-> None],
                                         live |-> TRUE]) @@ @],
             [i \in DOMAIN f.promises |->
                [op |-> "all_item", promise |-> f.promises[i],
                 any_id |-> id, idx |-> i - 1, value |-> id]])
    [] f.k \in {"AnyDiscard", "AllDiscard"} -> Ret(w, DiscardAll(f.ids))
    [] f.k = "AnyNotify" -> AnyNotify(w, f)
    [] f.k = "AllNotify" -> AllNotify(w, f)

\* A mutant of ThenBody: the continuation's outcome is passed downstream with
\* state and result in each other's place.
ThenBodySwap(w, f, state, result) ==
  LET x == RunFunc(w.local, f.func, state, result)
      w1 == Emit([w EXCEPT !.local = x.local],
                 [ev |-> "run", id |-> f.id])
  IN Route(w1, IF x.pr.k = "Resolve" THEN Resolve(x.pr.r, x.pr.s) ELSE x.pr,
           f.id)

\* the resolve closure Promise::then stores in the upstream node
ThenBody(w, f, state, result) ==
  LET x == RunFunc(w.local, f.func, state, result)
      w1 == Emit([w EXCEPT !.local = x.local],
                 [ev |-> "run", id |-> f.id])
  IN Route(w1, x.pr, f.id)

\* a call of a Box<dyn FnOnce(&mut World, S, R)>
CallRes(w, f, state, result) ==
  CASE f.k = "ThenBody" -> ThenBody(w, f, state, result)
    [] f.k = "MapBody" ->
         Ret(w, <<[op |-> "resolve", id |-> f.id,
                   s |-> ApplyMap(f.map, state), r |-> result]>>)
    [] f.k = "MapResultBody" ->
         Ret(w, <<[op |-> "resolve", id |-> f.id,
                   s |-> state, r |-> ApplyMap(f.map, result)]>>)
    [] f.k = "ResolveId" ->
         Ret(w, <<[op |-> "resolve", id |-> f.id, s |-> state, r |-> result]>>)

\* one pending call
Step(w, i) ==
  CASE i.op = "register" -> promise_register(w, i.node)
    [] i.op = "resolve" -> promise_resolve(w, i.id, i.s, i.r)
    [] i.op = "discard" -> promise_discard(w, i.id)
    [] i.op = "remove" -> RegistryRemove(w, i.id)
    [] i.op = "callfn" -> CallFn(Enter(w), i.f, i.id)
    [] i.op = "callres" -> CallRes(Enter(w), i.f, i.s, i.r)
    [] i.op = "any_item" -> AnyItem(w, i)
    [] i.op = "all_item" -> AllItem(w, i)

RECURSIVE Exec(_, _)
\* run the pending calls depth first until none is left or one panics
Exec(w, st) ==
  IF w.fault \/ st = <<>> THEN w
  ELSE LET x == Step(w, Head(st)) IN Exec(x.w, x.push \o Tail(st))

----------------------------------------------------------------------------
(* Top-level calls *)

World == [reg |-> reg, log |-> log, fault |-> fault, local |-> local,
          slots |-> slots, held |-> FALSE]

Commit(w) ==
  /\ reg' = w.reg
  /\ log' = w.log
  /\ fault' = w.fault
  /\ local' = w.local
  /\ slots' = w.slots

EmptyReg == [x \in {} |-> None]

InitWorld ==
  /\ reg = EmptyReg
  /\ log = <<>>
  /\ fault = FALSE
  /\ local = [t \in Threads |-> 0]
  /\ slots = EmptyReg
  /\ built = None
  /\ last = [op |-> "init"]
  /\ ops = 0

\* every identity generated so far
Issued == UNION {{<<t, n>> : n \in 1..local[t]} : t \in Threads}

Count(l, P(_)) == Len(SelectSeq(l, P))

\* commands.add(promise): <Promise as Command>::write
RegisterAct ==
  /\ ~fault /\ ops < MaxOps
  /\ built # None
  /\ Commit(Exec(World, <<[op |-> "register", node |-> built]>>))
  /\ built' = None
  /\ last' = [op |-> "register", id |-> built.id, present |-> built.id \in DOMAIN reg]
  /\ ops' = ops + 1
  /\ UNCHANGED sc

\* promise_resolve called by an external source holding an identity
ResolveAct ==
  /\ ~fault /\ ops < MaxOps
  /\ \E id \in Issued, s \in Vals, r \in Vals :
       /\ Commit(Exec(World, <<[op |-> "resolve", id |-> id, s |-> s, r |-> r]>>))
       /\ last' = [op |-> "resolve", id |-> id, s |-> s, r |-> r,
                   present |-> id \in DOMAIN reg]
  /\ ops' = ops + 1
  /\ UNCHANGED <<built, sc>>

\* promise_discard called by an external source holding an identity
DiscardAct ==
  /\ ~fault /\ ops < MaxOps
  /\ \E id \in Issued :
       /\ Commit(Exec(World, <<[op |-> "discard", id |-> id]>>))
       /\ last' = [op |-> "discard", id |-> id, present |-> id \in DOMAIN reg]
  /\ ops' = ops + 1
  /\ UNCHANGED <<built, sc>>

----------------------------------------------------------------------------
(* SpecId: PromiseId::new called on any thread, in any interleaving *)

InitId == InitWorld /\ sc = [issued |-> <<>>]

NewId ==
  \E t \in Threads :
    /\ local[t] < MaxLocal
    /\ Len(sc.issued) < MaxCalls
    /\ LET g == PromiseIdNew(local, t)
       IN /\ local' = g.local
          /\ sc' = [issued |-> Append(sc.issued, g.id)]
    /\ UNCHANGED <<reg, log, fault, slots, built, last, ops>>

NextId == NewId
SpecId == InitId /\ [][NextId]_vars

\* C10: all identities returned by PromiseId::new, on whatever threads and in
\* whatever interleaving, are pairwise distinct.
C10Thm ==
  \A i, j \in DOMAIN sc.issued : i # j => sc.issued[i] # sc.issued[j]

\* two threads have each generated identities, with equal local counters
C10Witness ==
  \E i, j \in DOMAIN sc.issued :
    /\ sc.issued[i][1] # sc.issued[j][1]
    /\ sc.issued[i][2] = sc.issued[j][2]
    /\ sc.issued[i][2] >= 2

----------------------------------------------------------------------------
(* SpecChain: one chain root.then(f1)...then(fn), registered, then resolved *)
(* and discarded through any of its identities                              *)

ChainFuncs == {[k |-> "Fn", f |-> n] : n \in FnNames} \cup {[k |-> "Delay"]}

InitChain == InitWorld /\ sc = [chain |-> <<>>]

\* Promise::register(on_invoke, on_discard): a root resolved by its source
StartRegister ==
  /\ sc.chain = <<>>
  /\ LET n == PromiseRegister(local, WorldThread,
                              [k |-> "Pending"], [k |-> "UserDiscard"])
     IN /\ built' = n.p
        /\ local' = n.local
        /\ sc' = [chain |-> <<n.p.id>>]
  /\ UNCHANGED <<reg, log, fault, slots, last, ops>>

\* Promise::new(state, func): a root whose body resolves at once
StartNew ==
  /\ sc.chain = <<>>
  /\ \E s \in Vals, r \in Vals :
       LET n == PromiseNew(local, WorldThread, s, [k |-> "Const", r |-> r])
       IN /\ built' = n.p
          /\ local' = n.local
          /\ sc' = [chain |-> <<n.p.id>>]
  /\ UNCHANGED <<reg, log, fault, slots, last, ops>>

ThenAct ==
  /\ built # None
  /\ Len(sc.chain) <= MaxThen
  /\ \E f \in ChainFuncs :
       LET n == Then(local, WorldThread, built, f)
       IN /\ built' = n.p
          /\ local' = n.local
          /\ sc' = [chain |-> Append(sc.chain, n.p.id)]
  /\ UNCHANGED <<reg, log, fault, slots, last, ops>>

NextChain ==
  \/ StartRegister
  \/ StartNew
  \/ ThenAct
  \/ RegisterAct
  \/ ResolveAct
  \/ DiscardAct

SpecChain == InitChain /\ [][NextChain]_vars

----------------------------------------------------------------------------
(* Properties of SpecChain *)

\* the user callbacks that have run: on_invoke, on_discard and continuations
CallbackEvents(l) ==
  SelectSeq(l, LAMBDA e : e.ev \in {"on_invoke", "on_discard", "run"})

\* the chain has a continuation: Terminal is the identity then returned last,
\* Upstream the identity of the node it was chained onto
Chained == Len(sc.chain) >= 2
Root == sc.chain[1]
Terminal == sc.chain[Len(sc.chain)]
Upstream == sc.chain[Len(sc.chain) - 1]

\* C3: promise_resolve on an identity absent from the registry is a
\* non-fatal no-op: no panic, no callback invoked, registry unchanged.
C3Claim ==
  [][(last'.op = "resolve" /\ ~last'.present)
       => (~fault' /\ reg' = reg
           /\ CallbackEvents(log') = CallbackEvents(log))]_vars

\* how often the chain's last continuation has run
TerminalRuns(l) ==
  Count(l, LAMBDA e : e.ev = "run" /\ e.id = Terminal)
\* how often the chain's discard callback has run
ChainDiscards(l) ==
  Count(l, LAMBDA e : e.ev = "on_discard" /\ e.id = Root)

\* C4: single delivery: over any sequence of resolve and discard calls on
\* the identities of a registered chain, the chain's end is delivered at most
\* once: its last continuation runs at most once, its discard callback runs
\* at most once, and never both.
C4Claim ==
  Chained => TerminalRuns(log) + ChainDiscards(log) <= 1

\* C5: discarding the identity returned by then removes that identity and
\* leaves the upstream node alone: it stays registered with its resolve
\* callback, the discard callback the upstream was built with is not invoked,
\* and a later resolve of the upstream identity does not fault.
C5Claim ==
  [][/\ (/\ Chained /\ last'.op = "discard" /\ last'.id = Terminal
         /\ Terminal \in DOMAIN reg /\ Upstream \in DOMAIN reg)
        => /\ Terminal \notin DOMAIN reg'
           /\ Upstream \in DOMAIN reg'
           /\ IsSome(reg'[Upstream].resolve)
           /\ Count(log', LAMBDA e : e.ev = "on_discard" /\ e.id = Upstream)
                = Count(log, LAMBDA e : e.ev = "on_discard" /\ e.id = Upstream)
     /\ (/\ Chained /\ last'.op = "resolve" /\ last'.id = Upstream
         /\ Upstream \in DOMAIN reg
         /\ last.op = "discard" /\ last.id = Terminal /\ last.present)
        => ~fault']_vars

\* C8: promise_discard on an identity absent from the registry is a no-op:
\* no panic, no callback is run, the registry is unchanged.
C8Thm ==
  [][(last'.op = "discard" /\ ~last'.present)
       => (~fault' /\ reg' = reg
           /\ CallbackEvents(log') = CallbackEvents(log))]_vars

\* a discard of an identity that an earlier call had discarded or resolved
C8Witness ==
  /\ last.op = "discard" /\ ~last.present /\ ~fault
  /\ \E i \in DOMAIN log :
       log[i].ev \in {"discard", "resolve"} /\ log[i].id = last.id
  /\ \E i \in DOMAIN log : log[i].ev = "on_discard"

----------------------------------------------------------------------------
(* SpecAssoc: p.then(f).then(g) beside p.then(h), h the composition of f    *)
(* and g, over a root that resolves at once                                 *)

UserFns == {[k |-> "Fn", f |-> n] : n \in FnNames}

InitAssoc ==
  /\ InitWorld
  /\ \E f \in UserFns, g \in UserFns, s \in Vals, r \in Vals :
       sc = [f |-> f, g |-> g, s |-> s, r |-> r,
             chained |-> <<>>, composed |-> <<>>]

\* Promise::new(s, state => state.resolve(r)).then(f).then(g)
BuildChained ==
  /\ built = None /\ sc.chained = <<>>
  /\ LET p == PromiseNew(local, WorldThread, sc.s, [k |-> "Const", r |-> sc.r])
         q == Then(p.local, WorldThread, p.p, sc.f)
         t == Then(q.local, WorldThread, q.p, sc.g)
     IN /\ built' = t.p
        /\ local' = t.local
        /\ sc' = [sc EXCEPT !.chained = <<p.p.id, q.p.id, t.p.id>>]
  /\ UNCHANGED <<reg, log, fault, slots, last, ops>>

\* Promise::new(s, state => state.resolve(r)).then(h)
BuildComposed ==
  /\ built = None /\ sc.composed = <<>>
  /\ LET p == PromiseNew(local, WorldThread, sc.s, [k |-> "Const", r |-> sc.r])
         q == Then(p.local, WorldThread, p.p,
                   [k |-> "Comp", f |-> sc.f, g |-> sc.g])
     IN /\ built' = q.p
        /\ local' = q.local
        /\ sc' = [sc EXCEPT !.composed = <<p.p.id, q.p.id>>]
  /\ UNCHANGED <<reg, log, fault, slots, last, ops>>

NextAssoc ==
  \/ BuildChained
  \/ BuildComposed
  \/ RegisterAct

SpecAssoc == InitAssoc /\ [][NextAssoc]_vars

\* what promise_resolve delivered to identity id, in order
Delivered(l, id) ==
  LET es == SelectSeq(l, LAMBDA e : e.ev = "resolve" /\ e.id = id)
  IN [i \in DOMAIN es |-> es[i].v]

ChainedEnd == sc.chained[Len(sc.chained)]
ComposedEnd == sc.composed[Len(sc.composed)]
BothRegistered ==
  /\ sc.chained # <<>> /\ sc.composed # <<>> /\ built = None

\* C9: with a root and continuations f, g that resolve synchronously,
\* p.then(f).then(g) and p.then(h), h being g applied to the outcome of f,
\* deliver the same final (state, result), each exactly once.
C9Thm ==
  BothRegistered =>
    /\ Len(Delivered(log, ChainedEnd)) = 1
    /\ Delivered(log, ChainedEnd) = Delivered(log, ComposedEnd)

\* both chains have run, with f and g that do not commute and change the input
C9Witness ==
  /\ BothRegistered /\ ~fault
  /\ sc.f.f = "swap" /\ sc.g.f = "sum"
  /\ Delivered(log, ChainedEnd) # <<>>
  /\ Delivered(log, ChainedEnd)[1] # <<sc.s, sc.r>>
  /\ Delivered(log, ChainedEnd)[1] = EvalPure(sc.g, sc.r, sc.s)

----------------------------------------------------------------------------
(* SpecAny, SpecAll: a vector of sibling promises given to any or all, the  *)
(* parent registered, the siblings and the parent then resolved and         *)
(* discarded by their sources.  A pending sibling is a                      *)
(* Promise::register(on_invoke, on_discard); a synchronous sibling is a     *)
(* Promise::new whose body resolves at once.                                *)

\* the (state, result) pairs siblings resolve with
SibVals == {<<0, 1>>, <<1, 0>>}

InitComb ==
  /\ InitWorld
  /\ sc = [promises |-> <<>>, kinds |-> <<>>, ids |-> <<>>, parent |-> <<>>]

AddPending ==
  /\ built = None /\ sc.parent = <<>>
  /\ Len(sc.promises) < MaxSibs
  /\ LET n == PromiseRegister(local, WorldThread,
                              [k |-> "Pending"], [k |-> "UserDiscard"])
     IN /\ local' = n.local
        /\ sc' = [sc EXCEPT !.promises = Append(@, n.p),
                            !.kinds = Append(@, [k |-> "pending"]),
                            !.ids = Append(@, n.p.id)]
  /\ UNCHANGED <<reg, log, fault, slots, built, last, ops>>

AddSync ==
  /\ built = None /\ sc.parent = <<>>
  /\ Len(sc.promises) < MaxSibs
  /\ \E v \in SibVals :
       LET n == PromiseNew(local, WorldThread, v[1], [k |-> "Const", r |-> v[2]])
       IN /\ local' = n.local
          /\ sc' = [sc EXCEPT !.promises = Append(@, n.p),
                              !.kinds = Append(@, [k |-> "sync", v |-> v]),
                              !.ids = Append(@, n.p.id)]
  /\ UNCHANGED <<reg, log, fault, slots, built, last, ops>>

\* Promise::any(vec)
BuildAny ==
  /\ built = None /\ sc.parent = <<>>
  /\ LET n == AnyRegister(local, WorldThread, sc.promises)
     IN /\ local' = n.local
        /\ built' = n.p
        /\ sc' = [sc EXCEPT !.parent = n.p.id]
  /\ UNCHANGED <<reg, log, fault, slots, last, ops>>

\* Promise::all(vec)
BuildAll ==
  /\ built = None /\ sc.parent = <<>>
  /\ LET n == AllRegister(local, WorldThread, sc.promises)
     IN /\ local' = n.local
        /\ built' = n.p
        /\ sc' = [sc EXCEPT !.parent = n.p.id]
  /\ UNCHANGED <<reg, log, fault, slots, last, ops>>

ParentRegistered == sc.parent # <<>> /\ built = None

\* a source resolves a sibling identity
ResolveSib ==
  /\ ~fault /\ ops < MaxCombOps /\ ParentRegistered
  /\ \E id \in Range(sc.ids), v \in SibVals :
       /\ Commit(Exec(World, <<[op |-> "resolve", id |-> id,
                                s |-> v[1], r |-> v[2]]>>))
       /\ last' = [op |-> "resolve", id |-> id, s |-> v[1], r |-> v[2],
                   present |-> id \in DOMAIN reg]
  /\ ops' = ops + 1
  /\ UNCHANGED <<built, sc>>

\* a sibling identity or the parent identity is discarded
DiscardKnown ==
  /\ ~fault /\ ops < MaxCombOps /\ ParentRegistered
  /\ \E id \in Range(sc.ids) \cup {sc.parent} :
       /\ Commit(Exec(World, <<[op |-> "discard", id |-> id]>>))
       /\ last' = [op |-> "discard", id |-> id, present |-> id \in DOMAIN reg]
  /\ ops' = ops + 1
  /\ UNCHANGED <<built, sc>>

NextAny ==
  \/ AddPending
  \/ AddSync
  \/ BuildAny
  \/ RegisterAct
  \/ ResolveSib
  \/ DiscardKnown

SpecAny == InitComb /\ [][NextAny]_vars

NextAll ==
  \/ AddPending
  \/ AddSync
  \/ BuildAll
  \/ RegisterAct
  \/ ResolveSib
  \/ DiscardKnown

SpecAll == InitComb /\ [][NextAll]_vars

----------------------------------------------------------------------------
(* Properties of SpecAny and SpecAll *)

NumSibs == Len(sc.ids)
SibIdx == DOMAIN sc.ids

\* the parent and every sibling are registered and none has been resolved
AllPending ==
  /\ ParentRegistered
  /\ sc.parent \in DOMAIN reg
  /\ \A i \in SibIdx : sc.ids[i] \in DOMAIN reg
  /\ Delivered(log, sc.parent) = <<>>

\* how many resolutions of sibling identities have been delivered
SibResolves(l) ==
  Count(l, LAMBDA e : e.ev = "resolve" /\ e.id \in Range(sc.ids))

\* C1: any over n >= 2 siblings, all registered and pending: when sibling k
\* is the first to be resolved, with (state_k, V), the parent is resolved
\* exactly once, with ((), (state_k, V)), and when the call returns every
\* other sibling is absent from the registry; a later discard of an absent
\* sibling runs no callback, and the parent is never resolved a second time.
C1Thm ==
  [][/\ (/\ NumSibs >= 2 /\ AllPending
         /\ last'.op = "resolve" /\ ops' = ops + 1)
        => /\ ~fault'
           /\ Delivered(log', sc.parent) = << <<Unit, <<last'.s, last'.r>>>> >>
           /\ \A i \in SibIdx :
                sc.ids[i] # last'.id => sc.ids[i] \notin DOMAIN reg'
     /\ (last'.op = "discard" /\ ops' = ops + 1 /\ ~last'.present)
        => CallbackEvents(log') = CallbackEvents(log)
     /\ Len(Delivered(log', sc.parent)) <= 1]_vars

\* three pending siblings, the second resolved first: the parent has its
\* pair and the others are gone
C1Witness ==
  /\ ParentRegistered /\ ~fault
  /\ NumSibs = 3 /\ \A i \in SibIdx : sc.kinds[i].k = "pending"
  /\ last.op = "resolve" /\ last.present /\ last.id = sc.ids[2]
  /\ SibResolves(log) = 1
  /\ Delivered(log, sc.parent) = << <<Unit, <<last.s, last.r>>>> >>
  /\ sc.ids[1] \notin DOMAIN reg /\ sc.ids[3] \notin DOMAIN reg

\* the pair each sibling was resolved with, by index
SibPairs == [i \in SibIdx |-> Delivered(log, sc.ids[i])[1]]
AllSibsResolved == \A i \in SibIdx : Delivered(log, sc.ids[i]) # <<>>
\* the place in the log of the first resolution delivered to id
ResolvedAt(id) ==
  CHOOSE i \in DOMAIN log :
    /\ log[i].ev = "resolve" /\ log[i].id = id
    /\ \A j \in 1..(i - 1) : ~(log[j].ev = "resolve" /\ log[j].id = id)

\* C2: all over n >= 1 siblings, in whatever order they are resolved: the
\* parent is resolved exactly once, after the last sibling has resolved, with
\* the vector of every sibling's (state, result) in index order.
C2Thm ==
  (ParentRegistered /\ NumSibs >= 1) =>
    /\ Len(Delivered(log, sc.parent)) <= 1
    /\ AllSibsResolved => Len(Delivered(log, sc.parent)) = 1
    /\ Delivered(log, sc.parent) # <<>> =>
         /\ AllSibsResolved
         /\ \A i \in SibIdx : ResolvedAt(sc.ids[i]) < ResolvedAt(sc.parent)
         /\ Delivered(log, sc.parent)[1] = <<Unit, SibPairs>>

\* three pending siblings resolved in the order 2, 0, 1 with pairs that
\* differ, and the parent resolved
C2Witness ==
  /\ ParentRegistered /\ ~fault
  /\ NumSibs = 3 /\ \A i \in SibIdx : sc.kinds[i].k = "pending"
  /\ AllSibsResolved
  /\ ResolvedAt(sc.ids[3]) < ResolvedAt(sc.ids[1])
  /\ ResolvedAt(sc.ids[1]) < ResolvedAt(sc.ids[2])
  /\ SibPairs[1] # SibPairs[3]
  /\ Delivered(log, sc.parent) = << <<Unit, SibPairs>> >>

HasSync == \E i \in SibIdx : sc.kinds[i].k = "sync"
HasPending == \E i \in SibIdx : sc.kinds[i].k = "pending"
FirstSync ==
  CHOOSE i \in SibIdx :
    sc.kinds[i].k = "sync" /\ \A j \in 1..(i - 1) : sc.kinds[j].k # "sync"

\* C6: in any, when a sibling resolves synchronously during the parent's
\* registration and another sibling would stay pending, then when the
\* registering call returns the parent has been resolved with the synchronous
\* sibling's pair and no pending sibling is left in the registry, whatever
\* the positions of the two.
C6Claim ==
  [][(/\ last'.op = "register" /\ ops' = ops + 1 /\ last'.id = sc.parent
      /\ HasSync /\ HasPending)
       => /\ Delivered(log', sc.parent) # <<>>
          /\ Delivered(log', sc.parent)[1] = <<Unit, sc.kinds[FirstSync].v>>
          /\ \A i \in SibIdx :
               sc.kinds[i].k = "pending" => sc.ids[i] \notin DOMAIN reg']_vars

\* C7: in any, when a second sibling resolves after the parent has been
\* resolved by an earlier sibling, the call does not fault, the parent keeps
\* the result of the first sibling and is not resolved a second time.
C7Claim ==
  [][(SibResolves(log) < 2 /\ SibResolves(log') >= 2)
       => /\ ~fault'
          /\ Len(Delivered(log', sc.parent)) = 1
          /\ \E i \in SibIdx :
               /\ Delivered(log', sc.ids[i]) # <<>>
               /\ Delivered(log', sc.parent)[1]
                    = <<Unit, Delivered(log', sc.ids[i])[1]>>
               /\ \A j \in SibIdx :
                    Delivered(log', sc.ids[j]) # <<>> => i <= j]_vars

----------------------------------------------------------------------------
(* SpecComb: the scenarios of SpecAny and of SpecAll together *)

NextComb ==
  \/ AddPending
  \/ AddSync
  \/ BuildAny
  \/ BuildAll
  \/ RegisterAct
  \/ ResolveSib
  \/ DiscardKnown

SpecComb == InitComb /\ [][NextComb]_vars

\* the registered parent is the parent of an all: its slot array exists
ParentIsAll == sc.parent \in DOMAIN slots

\* how often the on_discard given to Promise::register has run for id
OnDiscards(l, id) == Count(l, LAMBDA e : e.ev = "on_discard" /\ e.id = id)

\* the parent was discarded while registered and not resolved
ParentDiscarded(l) ==
  \E i \in DOMAIN l : l[i].ev = "discard" /\ l[i].id = sc.parent

\* C11: when the registered parent of any or of all is discarded before it
\* has been resolved, every sibling still pending is discarded: it is absent
\* from the registry afterwards and its discard callback has run exactly
\* once; and the parent is never resolved afterwards.
C11Thm ==
  [][/\ (/\ last'.op = "discard" /\ ops' = ops + 1 /\ last'.id = sc.parent
         /\ sc.parent \in DOMAIN reg /\ Delivered(log, sc.parent) = <<>>)
        => /\ ~fault'
           /\ sc.parent \notin DOMAIN reg'
           /\ \A i \in SibIdx :
                sc.ids[i] \in DOMAIN reg =>
                  /\ sc.ids[i] \notin DOMAIN reg'
                  /\ OnDiscards(log', sc.ids[i]) = 1
     /\ (ParentDiscarded(log) /\ Delivered(log, sc.parent) = <<>>)
        => Delivered(log', sc.parent) = <<>>]_vars

\* the parent of an all over three pending siblings, discarded after one of
\* them had resolved: the two others are gone, each discarded once
C11Witness ==
  /\ ParentRegistered /\ ParentIsAll /\ ~fault
  /\ NumSibs = 3 /\ \A i \in SibIdx : sc.kinds[i].k = "pending"
  /\ last.op = "discard" /\ last.id = sc.parent /\ last.present
  /\ Delivered(log, sc.ids[2]) # <<>>
  /\ OnDiscards(log, sc.ids[1]) = 1 /\ OnDiscards(log, sc.ids[3]) = 1
  /\ OnDiscards(log, sc.ids[2]) = 0
  /\ \A i \in SibIdx : sc.ids[i] \notin DOMAIN reg

----------------------------------------------------------------------------
(* SpecLink: one chain over a root made by register or new, grown by then,  *)
(* map and map_result, registered, then resolved and discarded through any  *)
(* identity                                                                 *)

LinkFuncs == {[k |-> "Fn", f |-> "swap"], [k |-> "Delay"]}

\* Promise::new(state, func) with a body that returns a promise to await
StartAwait ==
  /\ sc.chain = <<>>
  /\ \E s \in Vals :
       LET n == PromiseNew(local, WorldThread, s, [k |-> "Delay"])
       IN /\ built' = n.p
          /\ local' = n.local
          /\ sc' = [chain |-> <<n.p.id>>]
  /\ UNCHANGED <<reg, log, fault, slots, last, ops>>

LinkThen ==
  /\ built # None
  /\ Len(sc.chain) <= MaxThen
  /\ \E f \in LinkFuncs :
       LET n == Then(local, WorldThread, built, f)
       IN /\ built' = n.p
          /\ local' = n.local
          /\ sc' = [chain |-> Append(sc.chain, n.p.id)]
  /\ UNCHANGED <<reg, log, fault, slots, last, ops>>

LinkMap ==
  /\ built # None
  /\ Len(sc.chain) <= MaxThen
  /\ LET n == Map(local, WorldThread, built, [k |-> "Inc"])
     IN /\ built' = n.p
        /\ local' = n.local
        /\ sc' = [chain |-> Append(sc.chain, n.p.id)]
  /\ UNCHANGED <<reg, log, fault, slots, last, ops>>

LinkMapResult ==
  /\ built # None
  /\ Len(sc.chain) <= MaxThen
  /\ LET n == MapResult(local, WorldThread, built, [k |-> "Inc"])
     IN /\ built' = n.p
        /\ local' = n.local
        /\ sc' = [chain |-> Append(sc.chain, n.p.id)]
  /\ UNCHANGED <<reg, log, fault, slots, last, ops>>

\* the identities user code has been handed: on_invoke received them
Sources(l) == {l[i].id : i \in {j \in DOMAIN l : l[j].ev = "on_invoke"}}

\* promise_resolve called by the source of a Promise::register node, with
\* the identity its on_invoke was given
ResolveSource ==
  /\ ~fault /\ ops < MaxOps
  /\ \E id \in Sources(log), s \in Vals, r \in Vals :
       /\ Commit(Exec(World, <<[op |-> "resolve", id |-> id, s |-> s, r |-> r]>>))
       /\ last' = [op |-> "resolve", id |-> id, s |-> s, r |-> r,
                   present |-> id \in DOMAIN reg]
  /\ ops' = ops + 1
  /\ UNCHANGED <<built, sc>>

NextLink ==
  \/ StartRegister
  \/ StartNew
  \/ StartAwait
  \/ LinkThen
  \/ LinkMap
  \/ LinkMapResult
  \/ RegisterAct
  \/ ResolveSource
  \/ DiscardAct

SpecLink == InitChain /\ [][NextLink]_vars

\* C12 as stated: at every boundary between top-level calls every identity
\* present in the registry has its resolve callback set and its register
\* callback unset, the last node of a chain included.
C12Claim ==
  \A id \in DOMAIN reg :
    IsSome(reg[id].resolve) /\ ~IsSome(reg[id].register)

\* C12 as amended: every identity present in the registry has its register
\* callback unset; the last node of a chain is stored with resolve unset;
\* every other stored node has resolve set, except the node whose own
\* resolve callback panicked, which stays stored with resolve taken.
C12Thm ==
  \A id \in DOMAIN reg :
    /\ ~IsSome(reg[id].register)
    /\ id = Terminal => ~IsSome(reg[id].resolve)
    /\ (id # Terminal /\ ~IsSome(reg[id].resolve))
         => /\ fault
            /\ \E i \in DOMAIN log : log[i].ev = "resolve" /\ log[i].id = id

\* a two-node chain is registered: the upstream node is stored with its
\* resolve callback, the terminal node without one
C12Witness ==
  /\ Chained /\ ~fault
  /\ Root \in DOMAIN reg /\ Terminal \in DOMAIN reg
  /\ IsSome(reg[Root].resolve) /\ ~IsSome(reg[Terminal].resolve)
  /\ ~IsSome(reg[Root].register) /\ ~IsSome(reg[Terminal].register)

\* p is stored with the resolve closure of an Await branch: its resolution
\* is redirected to q
Awaits(r, p, q) ==
  /\ p \in DOMAIN r
  /\ r[p].resolve.k = "ResolveId"
  /\ r[p].resolve.id = q

\* the positions of the log at which a continuation ran and returned a
\* promise to await: the promise's on_invoke follows its registration
AwaitsReturned(l, from) ==
  {i \in (from + 1)..(Len(l) - 1) :
     l[i].ev = "run" /\ l[i + 1].ev = "on_invoke"}

\* C13: when the continuation of a registered identity q returns Await(p),
\* p is registered, redirected to q, and q stays pending; q is then resolved
\* by the resolution of p, with p's state and result, and by nothing else
\* before.
C13Thm ==
  [][/\ \A i \in AwaitsReturned(log', Len(log)) :
          LET q == log'[i].id
              p == log'[i + 1].id
          IN (q \in DOMAIN reg \/ last'.op = "register")
               => /\ Awaits(reg', p, q)
                  /\ q \in DOMAIN reg'
                  /\ Delivered(log', q) = <<>>
     /\ \A p \in DOMAIN reg :
          (reg[p].resolve.k = "ResolveId" /\ reg[p].resolve.id \in DOMAIN reg)
            => LET q == reg[p].resolve.id
               IN /\ (last'.op = "resolve" /\ ops' = ops + 1 /\ last'.id = p)
                       => Delivered(log', q) = << <<last'.s, last'.r>> >>
                  /\ (Delivered(log', q) # Delivered(log, q))
                       => /\ last'.op = "resolve"
                          /\ last'.id = p]_vars

\* register(..).then(delay) was registered, its root resolved with one
\* pair, and the awaited promise with another, which the terminal received
C13Witness ==
  /\ Chained /\ ~fault
  /\ last.op = "resolve" /\ last.present
  /\ last.id \notin Range(sc.chain)
  /\ Delivered(log, Terminal) = << <<last.s, last.r>> >>
  /\ Delivered(log, Root) # <<>>
  /\ Delivered(log, Root)[1] # <<last.s, last.r>>
  /\ reg = EmptyReg

RECURSIVE RootNode(_)
\* the node a chain was grown from: then, map and map_result move self into
\* the register closure of the node they return
RootNode(n) ==
  IF n.register.k = "RegSelf" THEN RootNode(n.register.node) ELSE n

\* the root's register callback resolves the root's own identity at once
RootResolvesAtOnce(n) ==
  /\ RootNode(n).register.k = "NewBody"
  /\ RootNode(n).register.func.k = "Const"

\* C15: promise_register stores the node before it runs the register
\* callback: a register callback that resolves its own identity at once
\* finds it present (no panic), and when promise_register returns the
\* identity has been resolved once and is absent from the registry.
C15Thm ==
  [][(/\ last'.op = "register" /\ ops' = ops + 1
      /\ built # None /\ RootResolvesAtOnce(built))
       => /\ ~fault'
          /\ \A i \in DOMAIN log' : log'[i].ev # "panic"
          /\ Len(Delivered(log', Root)) = 1
          /\ Root \notin DOMAIN reg']_vars

\* a root made by new, whose body resolves at once, has been registered
C15Witness ==
  /\ last.op = "register" /\ ops = 1 /\ ~fault
  /\ \E i \in DOMAIN log : log[i].ev = "run" /\ log[i].id = Root
  /\ Len(Delivered(log, Root)) = 1
  /\ Root \notin DOMAIN reg

\* the chain's root was made by Promise::register and has been registered:
\* its on_invoke has run
RootInvoked(l) == \E i \in DOMAIN l : l[i].ev = "on_invoke" /\ l[i].id = Root

\* C16: in a registered chain built by then, map or map_result, discarding
\* an upstream identity while it and the identity chained onto it are
\* registered discards both: neither is in the registry afterwards, and the
\* discard callback the chain's root was built with has run exactly once,
\* with the root's identity.
C16Thm ==
  [][\A i \in 1..(Len(sc.chain) - 1) :
       (/\ last'.op = "discard" /\ ops' = ops + 1 /\ last'.id = sc.chain[i]
        /\ sc.chain[i] \in DOMAIN reg /\ sc.chain[i + 1] \in DOMAIN reg)
         => /\ ~fault'
            /\ sc.chain[i] \notin DOMAIN reg'
            /\ sc.chain[i + 1] \notin DOMAIN reg'
            /\ RootInvoked(log) => OnDiscards(log', Root) = 1]_vars

\* the upstream of a registered map or map_result was discarded: both
\* identities are gone and the root's on_discard has run, in that call
C16Witness ==
  /\ Chained /\ ~fault /\ RootInvoked(log)
  /\ last.op = "discard" /\ last.id = Root /\ last.present /\ ops = 2
  /\ \E i \in DOMAIN log : log[i].ev = "discard" /\ log[i].id = Terminal
  /\ OnDiscards(log, Root) = 1
  /\ reg = EmptyReg
  /\ built = None

\* C17: when a continuation returned Await(p) and p is still pending,
\* discarding the awaiting identity q cancels p as well: p is absent from
\* the registry afterwards and p's discard callback has run, so that no
\* later resolve of p targets the removed q.
C17Claim ==
  [][\A p \in DOMAIN reg :
       (/\ reg[p].resolve.k = "ResolveId"
        /\ reg[p].resolve.id \in DOMAIN reg
        /\ reg[p].resolve.id \in Range(sc.chain) \ {Root}
        /\ last'.op = "discard" /\ ops' = ops + 1
        /\ last'.id = reg[p].resolve.id)
         => /\ p \notin DOMAIN reg'
            /\ OnDiscards(log', p) = 1]_vars

\* C18: the on_discard given to Promise::register runs at most once, and
\* never after the identity of its node has been resolved.
C18Claim ==
  [][\A id \in Sources(log) :
       OnDiscards(log', id) > OnDiscards(log, id)
         => /\ OnDiscards(log', id) = 1
            /\ Delivered(log, id) = <<>>]_vars

----------------------------------------------------------------------------
(* SpecSync: p.then(f1)...then(fn) over a root whose body resolves at once, *)
(* every continuation resolving at once, registered by one call             *)

SyncThen ==
  /\ built # None
  /\ Len(sc.chain) <= MaxSync
  /\ \E f \in UserFns :
       LET n == Then(local, WorldThread, built, f)
       IN /\ built' = n.p
          /\ local' = n.local
          /\ sc' = [chain |-> Append(sc.chain, n.p.id)]
  /\ UNCHANGED <<reg, log, fault, slots, last, ops>>

NextSync ==
  \/ StartNew
  \/ SyncThen
  \/ RegisterAct

SpecSync == InitChain /\ [][NextSync]_vars

\* the identities whose body or continuation has run, in the order they ran
RunOrder(l) ==
  LET R == SelectSeq(l, LAMBDA e : e.ev = "run")
  IN [i \in DOMAIN R |-> R[i].id]

\* C19: one top-level promise_register of p.then(f1)...then(fn), root and
\* continuations resolving at once, runs the root's body and f1..fn exactly
\* once each, in chain order, before it returns, without a panic, and leaves
\* none of the chain's identities in the registry.
C19Thm ==
  [][(last'.op = "register" /\ ops' = ops + 1)
       => /\ ~fault'
          /\ RunOrder(log') = sc.chain
          /\ \A i \in DOMAIN sc.chain :
               /\ Len(Delivered(log', sc.chain[i])) = 1
               /\ sc.chain[i] \notin DOMAIN reg'
          /\ reg' = EmptyReg]_vars

\* a chain of three continuations has been registered: four bodies ran in
\* chain order and the last identity received a pair other than the root's
C19Witness ==
  /\ Len(sc.chain) = 4 /\ last.op = "register" /\ ~fault
  /\ RunOrder(log) = sc.chain
  /\ Delivered(log, Terminal) # Delivered(log, Root)
  /\ reg = EmptyReg

\* C20: the registry lock is never held while a register, resolve or
\* discard callback runs, and no lifecycle call made from inside a callback
\* blocks on a lock its own caller holds.
C20Thm ==
  \A i \in DOMAIN log : log[i].ev \notin {"blocked", "locked_callback"}

\* a register callback has run a body that resolved its own identity, whose
\* resolve callback registered an awaited promise, and a discard callback
\* has run: lifecycle calls were made from inside each kind of callback
C20Witness ==
  /\ Chained /\ ~fault
  /\ \E i \in DOMAIN log : log[i].ev = "run" /\ log[i].id = Root
  /\ Delivered(log, Root) # <<>>
  /\ \E i \in DOMAIN log : log[i].ev = "run" /\ log[i].id = Terminal
  /\ \E i \in DOMAIN log : log[i].ev = "on_invoke"
  /\ \E i \in DOMAIN log : log[i].ev = "on_discard"

----------------------------------------------------------------------------
(* Further properties of SpecComb *)

\* C21: once the parent of any or of all has been resolved and the call
\* that resolved it has returned, no identity made for the combinator is
\* left in the registry: not a sibling, not a map or then wrapper, not a
\* notifier promise.
C21Claim ==
  (ParentRegistered /\ ~fault /\ Delivered(log, sc.parent) # <<>>)
    => reg = EmptyReg

\* C22: the parent of any or of all over no siblings is never resolved:
\* once registered it stays in the registry, pending, until it is discarded.
C22Thm ==
  (ParentRegistered /\ NumSibs = 0)
    => /\ ~fault
       /\ Delivered(log, sc.parent) = <<>>
       /\ sc.parent \in DOMAIN reg <=> ~ParentDiscarded(log)

\* all over no siblings has been registered: its empty slot array exists,
\* its on_invoke has returned, and the parent is in the registry, unresolved
C22Witness ==
  /\ ParentRegistered /\ NumSibs = 0 /\ ParentIsAll
  /\ last.op = "register"
  /\ slots[sc.parent].v = <<>> /\ slots[sc.parent].live
  /\ sc.parent \in DOMAIN reg
  /\ Delivered(log, sc.parent) = <<>>

\* the writes of the notifiers of all into the slot array
SlotWrites(l) == SelectSeq(l, LAMBDA e : e.ev = "slot_write")

\* C23: in all, over every sequence of sibling resolutions and discards,
\* each slot of the slot array is written at most once, and the array is
\* not accessed after the completing sibling has consumed it.
C23Thm ==
  /\ \A i \in DOMAIN log : log[i].ev # "use_after_free"
  /\ \A i \in DOMAIN SlotWrites(log) :
       /\ SlotWrites(log)[i].was = "None"
       /\ \A j \in DOMAIN SlotWrites(log) :
            SlotWrites(log)[j].idx = SlotWrites(log)[i].idx => j = i
  /\ \A id \in DOMAIN slots :
       ~slots[id].live => /\ Delivered(log, id) # <<>>
                          /\ id \notin DOMAIN reg \/ fault

\* three pending siblings of an all resolved last to first: three slots
\* written, each once, the array consumed by the last notifier and the
\* parent resolved
C23Witness ==
  /\ ParentRegistered /\ ParentIsAll /\ NumSibs = 3
  /\ \A i \in SibIdx : sc.kinds[i].k = "pending"
  /\ Len(SlotWrites(log)) = 3
  /\ SlotWrites(log)[1].idx = 2 /\ SlotWrites(log)[3].idx = 0
  /\ ~slots[sc.parent].live
  /\ Len(Delivered(log, sc.parent)) = 1
  /\ last.op = "resolve" /\ last.id = sc.ids[1] /\ ~fault

====
